---- MODULE Spec2Model ----
(***************************************************************************)
(* MTGDeckConverter: the version codec and the schema migration engine     *)
(* (card_db/updater.py), the card database (card_db/db.py) and the deck    *)
(* completion algorithm (model.py).                                        *)
(*                                                                         *)
(* Representation.  A Python str is a sequence of one-character strings.   *)
(* A Python int that may exceed 32 bits (the result of parse_patch_name)   *)
(* is a little-endian sequence of base-1000 limbs without leading zero     *)
(* limbs (0 is << >>), so that  n % 1000  is the first limb and            *)
(* n // 1000  the rest.                                                    *)
(***************************************************************************)
EXTENDS Integers, Sequences, FiniteSets, TLC

VARIABLES
    \* version codec (updater.py)
    triple, name, encoded, decoded, cpc,
    \* card database (db.py): the committed content of the database file, the
    \* connection's view of it, the connection, the handle and the session
    file, work, in_transaction, foreign_keys, conn, handle, closed_count, exited,
    \* the patch directory (sql/patches)
    patches,
    \* the deck (model.py): the Card objects by identity, and the lists of
    \* references to them
    cards, main_deck, side_board, maybe_board, acquire_bord, commanders,
    \* the last operation: its name, arguments, outcome, result, and the state before it
    lastOp, lastArgs, lastOut, lastRes, lastPre

codecVars == <<triple, name, encoded, decoded, cpc>>
dbVars == <<file, work, in_transaction, foreign_keys, conn, handle, closed_count, exited>>
lastVars == <<lastOp, lastArgs, lastOut, lastRes, lastPre>>
deckVars == <<cards, main_deck, side_board, maybe_board, acquire_bord, commanders>>
vars == <<codecVars, dbVars, lastVars, patches, deckVars>>

\* None, as a str value: a one-element sequence no real string equals.
None == <<"<None>">>

(***************************************************************************)
(* Python str / int primitives used by the code.                           *)
(***************************************************************************)
Digits == <<"0", "1", "2", "3", "4", "5", "6", "7", "8", "9">>

IsDigit(c) == \E i \in 1..Len(Digits) : Digits[i] = c

DigitVal(c) == (CHOOSE i \in 1..Len(Digits) : Digits[i] = c) - 1

\* str(n) for a non-negative int: decimal digits, no leading zeros.
RECURSIVE str(_)
str(n) == IF n < Len(Digits) THEN <<Digits[n + 1]>>
          ELSE Append(str(n \div Len(Digits)), Digits[(n % Len(Digits)) + 1])

\* int(s) for a string of decimal digits.
RECURSIVE int(_)
int(s) == IF Len(s) = 0 THEN 0
          ELSE int(SubSeq(s, 1, Len(s) - 1)) * Len(Digits) + DigitVal(s[Len(s)])

\* s.split(sep) for a one-character separator.
RECURSIVE split(_, _)
split(s, sep) ==
    IF \A i \in 1..Len(s) : s[i] # sep THEN <<s>>
    ELSE LET i == CHOOSE k \in 1..Len(s) : s[k] = sep /\ \A j \in 1..(k - 1) : s[j] # sep
         IN  <<SubSeq(s, 1, i - 1)>> \o split(SubSeq(s, i + 1, Len(s)), sep)

\* sep.join(parts)
RECURSIVE join(_, _)
join(parts, sep) ==
    IF Len(parts) = 0 THEN << >>
    ELSE IF Len(parts) = 1 THEN parts[1]
    ELSE parts[1] \o sep \o join(Tail(parts), sep)

reversed(s) == [i \in 1..Len(s) |-> s[Len(s) + 1 - i]]

endswith(text, suffix) ==
    /\ Len(suffix) <= Len(text)
    /\ SubSeq(text, Len(text) - Len(suffix) + 1, Len(text)) = suffix

DotSql == <<".", "s", "q", "l">>
Dot == <<".">>

strip_end(text, suffix) ==
    IF ~endswith(text, suffix) THEN text
    ELSE SubSeq(text, 1, Len(text) - Len(suffix))

(***************************************************************************)
(* Unbounded integers as base-1000 limbs.                                  *)
(***************************************************************************)
Base == 1000

\* The limbs of a non-negative machine int.
RECURSIVE Limbs(_)
Limbs(n) == IF n = 0 THEN << >> ELSE <<n % Base>> \o Limbs(n \div Base)

\* a + b + carry on limbs.
RECURSIVE BigAdd(_, _, _)
BigAdd(a, b, carry) ==
    IF Len(a) = 0 /\ Len(b) = 0 THEN Limbs(carry)
    ELSE LET x == IF Len(a) = 0 THEN 0 ELSE Head(a)
             y == IF Len(b) = 0 THEN 0 ELSE Head(b)
             ra == IF Len(a) = 0 THEN << >> ELSE Tail(a)
             rb == IF Len(b) = 0 THEN << >> ELSE Tail(b)
             s == x + y + carry
         IN  <<s % Base>> \o BigAdd(ra, rb, s \div Base)

\* Drop leading (most significant) zero limbs.
RECURSIVE Normal(_)
Normal(a) == IF Len(a) > 0 /\ a[Len(a)] = 0 THEN Normal(SubSeq(a, 1, Len(a) - 1)) ELSE a

\* 1000**i * n
Shift(i, n) == Normal([k \in 1..i |-> 0] \o Limbs(n))

\* The machine int of limbs (for values known to fit).
RECURSIVE IntOf(_)
IntOf(a) == IF Len(a) = 0 THEN 0 ELSE Head(a) + Base * IntOf(Tail(a))

(***************************************************************************)
(* updater.py: the version codec.                                          *)
(***************************************************************************)
\* sum(1000**i*parts[i] for i in range(0, len(parts)))
RECURSIVE SumTerms(_, _)
SumTerms(parts, i) ==
    IF i > Len(parts) THEN << >>
    ELSE Normal(BigAdd(Shift(i - 1, parts[i]), SumTerms(parts, i + 1), 0))

\* parse_patch_name without reversed(): the major part weighs least.
ParseWithoutReverse(patch_name) ==
    LET stripped == strip_end(patch_name, DotSql)
        split_parts == split(stripped, ".")
    IN  SumTerms([i \in 1..Len(split_parts) |-> int(split_parts[i])], 1)

parse_patch_name(patch_name) ==
    LET stripped == strip_end(patch_name, DotSql)
        split_parts == split(stripped, ".")
        parts == reversed([i \in 1..Len(split_parts) |-> int(split_parts[i])])
    IN  SumTerms(parts, 1)

\* The parts list after the first loop: str(version % 1000) while version != 0.
RECURSIVE VersionParts(_)
VersionParts(version) ==
    IF Len(version) = 0 THEN << >>
    ELSE <<str(Head(version))>> \o VersionParts(Tail(version))

\* while len(parts) < 3: parts.append("0")
RECURSIVE PadParts(_)
PadParts(parts) == IF Len(parts) < 3 THEN PadParts(Append(parts, <<"0">>)) ELSE parts

version_str(version) == join(reversed(PadParts(VersionParts(version))), Dot)

(***************************************************************************)
(* str.lower() and str.title() on the letters the data uses.               *)
(***************************************************************************)
LowerLetters == <<"a", "b", "c", "d", "e", "f", "g", "h", "i", "j", "k", "l", "m",
                  "n", "o", "p", "q", "r", "s", "t", "u", "v", "w", "x", "y", "z">>
UpperLetters == <<"A", "B", "C", "D", "E", "F", "G", "H", "I", "J", "K", "L", "M",
                  "N", "O", "P", "Q", "R", "S", "T", "U", "V", "W", "X", "Y", "Z">>

IsUpper(c) == \E i \in 1..Len(UpperLetters) : UpperLetters[i] = c
IsLower(c) == \E i \in 1..Len(LowerLetters) : LowerLetters[i] = c
IsLetter(c) == IsUpper(c) \/ IsLower(c)

LowerChar(c) ==
    IF IsUpper(c) THEN LowerLetters[CHOOSE i \in 1..Len(UpperLetters) : UpperLetters[i] = c]
    ELSE c
UpperChar(c) ==
    IF IsLower(c) THEN UpperLetters[CHOOSE i \in 1..Len(LowerLetters) : LowerLetters[i] = c]
    ELSE c

lower(s) == [i \in 1..Len(s) |-> LowerChar(s[i])]

\* Each letter that follows a non-letter (or starts the string) in upper case,
\* every other letter in lower case.
title(s) ==
    [i \in 1..Len(s) |->
        IF i = 1 \/ ~IsLetter(s[i - 1]) THEN UpperChar(s[i]) ELSE LowerChar(s[i])]

\* Python truth value of an Optional[str]: None and "" are false.
Truthy(s) == s # None /\ s # << >>

(***************************************************************************)
(* db.py: the card database.                                               *)
(*                                                                         *)
(* A store is the content of the database: the schema version marker       *)
(* (PRAGMA user_version) and the rows of Card, Card_Set and Printing in    *)
(* rowid order.  A row's id is its index.  A store with user_version 0 is  *)
(* an empty database file without schema.  `file` is the committed store,  *)
(* `work` is what the open connection reads and writes.                    *)
(***************************************************************************)
inclusive_min == 4
exclusive_max == 5

EmptyStore(v) == [user_version |-> v, Card |-> << >>, Card_Set |-> << >>, Printing |-> << >>]

\* sql/database_schema.sql: the rows of the Rarity enumeration.
Land == <<"L", "a", "n", "d">>
RarityTable == {<<"C", "o", "m", "m", "o", "n">>,
                <<"U", "n", "c", "o", "m", "m", "o", "n">>,
                <<"R", "a", "r", "e">>,
                <<"M", "y", "t", "h", "i", "c">>,
                Land}

\* sql/database_schema.sql run on an empty database: the tables, without
\* rows, and the version marker the script sets.
database_schema(w, v) == EmptyStore(v)

\* sql/database_schema.sql, Printings_View: Printing joined with its Card and
\* its Card_Set, abbreviation and collector number in lower case.
Printings_View(w) ==
    {[English_Name |-> w.Card[w.Printing[i].Card_ID].English_Name,
      Abbreviation |-> lower(w.Card_Set[w.Printing[i].Set_ID].Abbreviation),
      Collector_Number |-> lower(w.Printing[i].Collector_Number)] :
        i \in 1..Len(w.Printing)}

\* sqlite3: Connection.commit(), Connection.rollback(); f is the committed
\* store, w the connection's view. Each gives the store both become.
commit(f, w) == w
rollback(f, w) == f

get_current_schema_version(w) == w.user_version

\* is_database_populated with the query answering "no rows" always.
NeverPopulated(w) == FALSE

is_database_populated(w) == Len(w.Printing) > 0

\* _validate_schema_version comparing with > where the code has >=.
ValidateOffByOne(w) ==
    IF w.user_version < inclusive_min THEN "ConnectionAbortedError"
    ELSE IF w.user_version > exclusive_max THEN "ConnectionAbortedError"
    ELSE "ok"

\* _validate_schema_version: the error raised, or "ok".
validate_schema_version(w) ==
    IF get_current_schema_version(w) < inclusive_min THEN "ConnectionAbortedError"
    ELSE IF get_current_schema_version(w) >= exclusive_max THEN "ConnectionAbortedError"
    ELSE "ok"

(***************************************************************************)
(* populate_database                                                       *)
(***************************************************************************)
BasicLands == {<<"P", "l", "a", "i", "n", "s">>, <<"I", "s", "l", "a", "n", "d">>,
               <<"S", "w", "a", "m", "p">>, <<"M", "o", "u", "n", "t", "a", "i", "n">>,
               <<"F", "o", "r", "e", "s", "t">>}

\* datetime.date.fromisoformat accepts the string.
IsIsoDate(s) == s \in {"2018-07-13", "2017-09-29"}

\* The test for the Card row answering that there is none.
CardNeverExists(w, oracle_id) == FALSE

CardExists(w, oracle_id) ==
    \E i \in 1..Len(w.Card) : w.Card[i].Scryfall_Oracle_ID = oracle_id

SetExists(w, set_abbr) ==
    \E i \in 1..Len(w.Card_Set) : w.Card_Set[i].Abbreviation = set_abbr

\* The rarity without the substitution for basic lands.
NominalRarity(card) == title(card.rarity)

effective_rarity(card) ==
    IF card.name \in BasicLands THEN Land ELSE title(card.rarity)

\* INSERT INTO Printing ... SELECT ... FROM Rarity INNER JOIN Card_Set INNER JOIN
\* Card WHERE ...: one new row for every (Card, Card_Set, Rarity) combination
\* that matches.
RECURSIVE SetToSeq(_)
SetToSeq(S) == IF S = {} THEN << >>
               ELSE LET x == CHOOSE y \in S : \A z \in S : y[1] < z[1] \/ (y[1] = z[1] /\ y[2] <= z[2])
                    IN  <<x>> \o SetToSeq(S \ {x})

InsertPrinting(w, collector_number, id, set_abbr, oracle_id, rarity) ==
    LET matches == {<<c, s>> \in (1..Len(w.Card)) \X (1..Len(w.Card_Set)) :
                        /\ w.Card_Set[s].Abbreviation = set_abbr
                        /\ w.Card[c].Scryfall_Oracle_ID = oracle_id
                        /\ rarity \in RarityTable}
        ordered == SetToSeq(matches)
        rows == [i \in 1..Len(ordered) |->
                    [Card_ID |-> ordered[i][1], Set_ID |-> ordered[i][2], Rarity |-> rarity,
                     Collector_Number |-> collector_number, Scryfall_Card_ID |-> id]]
    IN  [w EXCEPT !.Printing = @ \o rows]

\* One iteration of the loop over card_data_list: the store after it, and
\* whether it raised (then the store is what had been written when it did).
InsertCard(w, card) ==
    LET oracle_id == card.oracle_id
        set_abbr == card.set
        w1 == IF ~CardExists(w, oracle_id)
              THEN [w EXCEPT !.Card = Append(@, [English_Name |-> card.name,
                                                 Scryfall_Oracle_ID |-> oracle_id])]
              ELSE w
    IN  IF ~SetExists(w1, set_abbr) /\ ~IsIsoDate(card.released_at)
        THEN [raised |-> TRUE, store |-> w1]
        ELSE LET w2 == IF ~SetExists(w1, set_abbr)
                       THEN [w1 EXCEPT !.Card_Set = Append(@, [English_Name |-> card.set_name,
                                                               Abbreviation |-> set_abbr,
                                                               Release_date |-> card.released_at])]
                       ELSE w1
             IN  [raised |-> FALSE,
                  store |-> InsertPrinting(w2, card.collector_number, card.id, set_abbr,
                                           oracle_id, effective_rarity(card))]

\* for card in card_data_list: ... ; stops at the first iteration that raises.
RECURSIVE InsertAll(_, _)
InsertAll(w, card_data_list) ==
    IF Len(card_data_list) = 0 THEN [raised |-> FALSE, store |-> w]
    ELSE LET r == InsertCard(w, Head(card_data_list))
         IN  IF r.raised THEN r ELSE InsertAll(r.store, Tail(card_data_list))

\* The except clause re-raising without the rollback.
NoRollbackOnError(f, w) == w

\* except Exception as e: self.db.rollback(); raise e
RollbackOnError(f, w) == rollback(f, w)

\* else: self.db.commit()
CommitOnSuccess(f, w) == commit(f, w)

\* populate_database as a whole. source is what _request_scryfall_card_data
\* gives: [ok |-> FALSE] (it raises) or [ok |-> TRUE, data |-> card_data_list].
\* The result: the committed store, the connection's view, whether the bulk
\* data was requested, the number of rows the loop had written when it ended,
\* and the outcome.
Rows(w) == Len(w.Card) + Len(w.Card_Set) + Len(w.Printing)

populate_database(f, w, source) ==
    IF is_database_populated(w)
    THEN [file |-> f, work |-> w, fetched |-> FALSE, written |-> 0, ended_txn |-> FALSE,
          out |-> "skipped"]
    ELSE IF ~source.ok
    THEN [file |-> f, work |-> w, fetched |-> TRUE, written |-> 0, ended_txn |-> FALSE,
          out |-> "RuntimeError"]
    ELSE LET w0 == rollback(f, w)
             r == InsertAll(w0, source.data)
         IN  IF r.raised
             THEN [file |-> f, work |-> RollbackOnError(f, r.store), fetched |-> TRUE,
                   written |-> Rows(r.store) - Rows(w0), ended_txn |-> TRUE, out |-> "raised"]
             ELSE [file |-> CommitOnSuccess(f, r.store), work |-> r.store, fetched |-> TRUE,
                   written |-> Rows(r.store) - Rows(w0), ended_txn |-> TRUE, out |-> "ok"]

(***************************************************************************)
(* The disambiguation lookups. The rows of a query without ORDER BY come   *)
(* in no particular order, so each lookup is the set of values that        *)
(* found_cards[0] may give; the empty set is the raised ValueError.        *)
(***************************************************************************)
get_card_set_and_number_for_name(w, english_name) ==
    {<<r.Abbreviation, r.Collector_Number>> :
        r \in {v \in Printings_View(w) : v.English_Name = english_name}}

\* The (name, set) lookup passing set_abbreviation on as given, without lower().
LookupSetAsGiven(w, english_name, set_abbreviation) ==
    {r.Collector_Number :
        r \in {v \in Printings_View(w) : /\ v.English_Name = english_name
                                         /\ v.Abbreviation = set_abbreviation}}

get_collector_number_for_card_in_set(w, english_name, set_abbreviation) ==
    {r.Collector_Number :
        r \in {v \in Printings_View(w) : /\ v.English_Name = english_name
                                         /\ v.Abbreviation = lower(set_abbreviation)}}

get_card_set_for_card_with_collector_number(w, english_name, collector_number) ==
    {r.Abbreviation :
        r \in {v \in Printings_View(w) : /\ v.English_Name = english_name
                                         /\ v.Collector_Number = lower(collector_number)}}

get_english_name_for_card_in_card_set(w, set_abbreviation, collector_number) ==
    {r.English_Name :
        r \in {v \in Printings_View(w) : /\ v.Abbreviation = lower(set_abbreviation)
                                         /\ v.Collector_Number = lower(collector_number)}}

\* is_set_abbreviation_known answering that every abbreviation is known.
AnySetKnown(w, set_abbreviation) == TRUE

is_set_abbreviation_known(w, set_abbreviation) ==
    \E i \in 1..Len(w.Card_Set) : w.Card_Set[i].Abbreviation = set_abbreviation

(***************************************************************************)
(* Opening and closing.                                                    *)
(***************************************************************************)
\* The user_version sql/database_schema.sql sets: the version this release
\* of the code accepts.
SchemaScriptVersion == 4

\* sqlite: PRAGMA foreign_keys is a no-op within a transaction.
pragma_foreign_keys(in_txn, fk) == IF in_txn THEN fk ELSE TRUE

\* _create_schema_if_not_present: executescript commits what is pending and
\* runs the script in autocommit mode; then commit() and BEGIN TRANSACTION.
create_schema_if_not_present(f, w, in_txn) ==
    IF get_current_schema_version(w) = 0
    THEN LET s == database_schema(commit(f, w), SchemaScriptVersion)
         IN  [file |-> s, work |-> s, in_transaction |-> TRUE]
    ELSE [file |-> f, work |-> w, in_transaction |-> in_txn]

\* CardDatabase.__init__ on the database file f.
open_database(f, do_validate_schema) ==
    LET c == create_schema_if_not_present(f, f, FALSE)
        out == IF do_validate_schema THEN validate_schema_version(c.work) ELSE "ok"
    IN  [file |-> c.file, work |-> c.work, in_transaction |-> c.in_transaction,
         foreign_keys |-> IF do_validate_schema /\ out = "ok"
                          THEN pragma_foreign_keys(c.in_transaction, FALSE)
                          ELSE FALSE,
         out |-> out]

\* _close_db without the final self.db = None.
CloseKeepsConnection(c, f, w, n) ==
    [conn |-> c, file |-> f, work |-> rollback(f, w), closed_count |-> n + 1, out |-> "ok"]

\* _close_db committing what is pending instead of rolling it back.
CloseCommits(c, f, w, n) ==
    IF c = "closed"
    THEN [conn |-> c, file |-> f, work |-> w, closed_count |-> n, out |-> "RuntimeError"]
    ELSE [conn |-> "closed", file |-> commit(f, w), work |-> commit(f, w), closed_count |-> n + 1,
          out |-> "ok"]

\* _close_db: self.db is None ("closed") raises; otherwise rollback, close and
\* self.db = None.  The database file keeps its committed content.
close_db(c, f, w, n) ==
    IF c = "closed"
    THEN [conn |-> c, file |-> f, work |-> w, closed_count |-> n, out |-> "RuntimeError"]
    ELSE [conn |-> "closed", file |-> f, work |-> rollback(f, w), closed_count |-> n + 1, out |-> "ok"]

(***************************************************************************)
(* updater.py: the schema migration engine.                                *)
(*                                                                         *)
(* The patch directory is a set of entries [folder, file, sets]: a script  *)
(* <folder>/<file> whose SQL sets user_version to `sets`, or, with file    *)
(* "" (<< >>), the folder itself, which may hold no script at all.         *)
(***************************************************************************)
\* re.fullmatch of [0-9]|[1-9][0-9]+
IsVersionNumber(s) ==
    /\ Len(s) >= 1
    /\ \A i \in 1..Len(s) : IsDigit(s[i])
    /\ (Len(s) = 1 \/ s[1] # "0")

\* re.fullmatch(_PATCH_SEMVER_SCHEMA, s)
fullmatch_semver(s) ==
    LET parts == split(s, ".")
    IN  Len(parts) = 3 /\ \A i \in 1..3 : IsVersionNumber(parts[i])

\* re.fullmatch(_PATCH_FILE_SCHEMA, s)
fullmatch_file(s) == endswith(s, DotSql) /\ fullmatch_semver(strip_end(s, DotSql))

\* natsort.py: the key of a name, the numbers in it from left to right.
RECURSIVE NaturalKey(_)
NaturalKey(s) ==
    IF Len(s) = 0 THEN << >>
    ELSE IF ~IsDigit(s[1]) THEN NaturalKey(Tail(s))
    ELSE LET n == CHOOSE k \in 1..Len(s) :
                      /\ \A j \in 1..k : IsDigit(s[j])
                      /\ (k = Len(s) \/ ~IsDigit(s[k + 1]))
         IN  <<int(SubSeq(s, 1, n))>> \o NaturalKey(SubSeq(s, n + 1, Len(s)))

\* a sorts before b, or with it.
RECURSIVE KeyLeq(_, _)
KeyLeq(a, b) ==
    IF Len(a) = 0 THEN TRUE
    ELSE IF Len(b) = 0 THEN FALSE
    ELSE IF Head(a) # Head(b) THEN Head(a) < Head(b)
    ELSE KeyLeq(Tail(a), Tail(b))

\* natsort.py, natural_sorted(names, reverse): ascending numeric order.
RECURSIVE natural_sorted_asc(_)
natural_sorted_asc(names) ==
    IF names = {} THEN << >>
    ELSE LET first == CHOOSE x \in names :
                          \A y \in names : KeyLeq(NaturalKey(x), NaturalKey(y))
         IN  <<first>> \o natural_sorted_asc(names \ {first})

natural_sorted(names, reverse) ==
    IF reverse THEN reversed(natural_sorted_asc(names)) ELSE natural_sorted_asc(names)

\* _PATCH_LIST_PATH.glob("*")
PatchFolders(dir) == {e.folder : e \in dir}

\* current_patch_folder.glob("*.sql")
PatchFiles(dir, patch_folder) ==
    {e.file : e \in {x \in dir : x.folder = patch_folder /\ endswith(x.file, DotSql)}}

\* patch_file_path.read_text(): the version the script sets.
ScriptSets(dir, patch_folder, patch) ==
    (CHOOSE e \in dir : e.folder = patch_folder /\ e.file = patch).sets

\* Connection.executescript: a COMMIT first, then the script's statements, each
\* committed as it runs.
executescript(f, w, sets) ==
    LET s == [commit(f, w) EXCEPT !.user_version = sets]
    IN  [file |-> s, work |-> s, in_transaction |-> FALSE]

\* A migration in progress: the stores, the outcome so far, the number of
\* patches applied and, per folder visited, what was done with it.
MigStart(f, w, in_txn) ==
    [file |-> f, work |-> w, in_transaction |-> in_txn, out |-> "ok", why |-> "",
     applied |-> 0, log |-> << >>]

Raise(st, why, event) ==
    [st EXCEPT !.out = "ValueError", !.why = why, !.log = Append(@, event)]

\* try_apply_patch without the check of the version the script left.
ApplyWithoutCheck(st, dir, patch_folder, patch) ==
    IF ~fullmatch_file(patch)
    THEN Raise(st, "invalid patch file name", <<patch_folder, "invalid", patch>>)
    ELSE LET x == executescript(st.file, st.work, ScriptSets(dir, patch_folder, patch))
         IN  [st EXCEPT !.file = x.file, !.work = x.work, !.in_transaction = x.in_transaction,
                        !.log = Append(@, <<patch_folder, "applied", patch>>)]

\* apply_patch, then the check of the version the script left.
try_apply_patch(st, dir, patch_folder, patch) ==
    IF ~fullmatch_file(patch)
    THEN Raise(st, "invalid patch file name", <<patch_folder, "invalid", patch>>)
    ELSE LET target_version == IntOf(parse_patch_name(patch))
             x == executescript(st.file, st.work, ScriptSets(dir, patch_folder, patch))
             ran == [st EXCEPT !.file = x.file, !.work = x.work,
                               !.in_transaction = x.in_transaction]
         IN  IF get_current_schema_version(ran.work) # target_version
             THEN Raise(ran, "patch did not set schema version", <<patch_folder, "applied", patch>>)
             ELSE [ran EXCEPT !.log = Append(@, <<patch_folder, "applied", patch>>)]

\* The choice of the script to apply with the lowest target taken.
LowestPatch(dir, patch_folder) == natural_sorted(PatchFiles(dir, patch_folder), FALSE)

\* sorted_patch_names keeping only the lowest and the highest name.
LowestThenHighest(dir, patch_folder) ==
    LET names == natural_sorted(PatchFiles(dir, patch_folder), FALSE)
    IN  IF Len(names) = 0 THEN names ELSE <<names[1], names[Len(names)]>>

\* sorted_patch_names: the folder's scripts, highest target first.
sorted_patch_names(dir, patch_folder) == natural_sorted(PatchFiles(dir, patch_folder), TRUE)

\* try_apply_patch_folder raising for a folder without scripts.
RaiseOnEmptyFolder(st, dir, patch_folder) ==
    IF ~fullmatch_semver(patch_folder)
    THEN Raise(st, "invalid patch folder name", <<patch_folder, "invalid", << >> >>)
    ELSE LET current_version == get_current_schema_version(st.work)
             src_version == IntOf(parse_patch_name(patch_folder))
         IN  IF current_version < src_version
             THEN Raise(st, "missing intermediate patch", <<patch_folder, "missing", << >> >>)
             ELSE IF current_version > src_version
             THEN [st EXCEPT !.log = Append(@, <<patch_folder, "skipped", << >> >>)]
             ELSE LET names == sorted_patch_names(dir, patch_folder)
                  IN  IF Len(names) > 0
                      THEN LET r == try_apply_patch(st, dir, patch_folder, names[1])
                           IN  IF r.out = "ok" THEN [r EXCEPT !.applied = @ + 1] ELSE r
                      ELSE Raise(st, "missing intermediate patch", <<patch_folder, "empty", << >> >>)

try_apply_patch_folder(st, dir, patch_folder) ==
    IF ~fullmatch_semver(patch_folder)
    THEN Raise(st, "invalid patch folder name", <<patch_folder, "invalid", << >> >>)
    ELSE LET current_version == get_current_schema_version(st.work)
             src_version == IntOf(parse_patch_name(patch_folder))
         IN  IF current_version < src_version
             THEN Raise(st, "missing intermediate patch", <<patch_folder, "missing", << >> >>)
             ELSE IF current_version > src_version
             THEN [st EXCEPT !.log = Append(@, <<patch_folder, "skipped", << >> >>)]
             ELSE LET names == sorted_patch_names(dir, patch_folder)
                  IN  IF Len(names) > 0
                      THEN LET r == try_apply_patch(st, dir, patch_folder, names[1])
                           IN  IF r.out = "ok" THEN [r EXCEPT !.applied = @ + 1] ELSE r
                      ELSE [st EXCEPT !.log = Append(@, <<patch_folder, "empty", << >> >>)]

\* The folders taken from the last to the first.
RECURSIVE ApplyFoldersDescending(_, _, _)
ApplyFoldersDescending(st, dir, folders) ==
    IF Len(folders) = 0 \/ st.out # "ok" THEN st
    ELSE ApplyFoldersDescending(try_apply_patch_folder(st, dir, folders[Len(folders)]), dir,
                                SubSeq(folders, 1, Len(folders) - 1))

\* sum(try_apply_patch_folder(db, patch_folder) for patch_folder in ...): the
\* first folder that raises ends it.
RECURSIVE ApplyFolders(_, _, _)
ApplyFolders(st, dir, folders) ==
    IF Len(folders) = 0 \/ st.out # "ok" THEN st
    ELSE ApplyFolders(try_apply_patch_folder(st, dir, Head(folders)), dir, Tail(folders))

\* The final check accepting exclusive_max too.
UsableUpToMax(current_version) ==
    inclusive_min <= current_version /\ current_version <= exclusive_max

\* min_version <= current_version < max_version
final_version_usable(current_version) ==
    inclusive_min <= current_version /\ current_version < exclusive_max

\* update_database_schema as a whole.
update_database_schema(f, w, in_txn, dir) ==
    LET st == ApplyFolders(MigStart(f, w, in_txn), dir, natural_sorted(PatchFolders(dir), FALSE))
        current_version == get_current_schema_version(st.work)
    IN  IF st.out # "ok" THEN st
        ELSE IF ~final_version_usable(current_version)
        THEN [st EXCEPT !.out = "ValueError", !.why = "no usable schema version"]
        ELSE [st EXCEPT !.file = commit(st.file, st.work), !.in_transaction = FALSE]

(***************************************************************************)
(* model.py: Card and Deck.  A Card is an object: the deck's lists hold    *)
(* references (identities) and `cards` holds the fields of each object.    *)
(* Of a Card's fields, the three that completion reads and writes are kept.*)
(***************************************************************************)
Card(english_name, set_abbreviation, collector_number) ==
    [english_name |-> english_name, set_abbreviation |-> set_abbreviation,
     collector_number |-> collector_number]

\* _fill_information_for_card, for the card with fields c against the store
\* w: the possible outcomes, each with the card's fields afterwards and the
\* lookup that was called.  A lookup that finds nothing raises before any
\* field is assigned.
fill_information_for_card(c, w) ==
    LET done(after, lookup) == [card |-> after, out |-> "ok", lookup |-> lookup]
        raised(lookup) == [card |-> c, out |-> "ValueError", lookup |-> lookup]
        outcomes(found, lookup, assign(_)) ==
            IF found = {} THEN {raised(lookup)} ELSE {done(assign(x), lookup) : x \in found}
        by_name(x) == [c EXCEPT !.set_abbreviation = x[1], !.collector_number = x[2]]
        by_name_set(x) == [c EXCEPT !.collector_number = x]
        by_name_number(x) == [c EXCEPT !.set_abbreviation = x]
        by_set_number(x) == [c EXCEPT !.english_name = x]
    IN  IF Truthy(c.english_name)
        THEN IF \/ (~Truthy(c.set_abbreviation) /\ ~Truthy(c.collector_number))
                \/ (Truthy(c.set_abbreviation) /\ ~is_set_abbreviation_known(w, c.set_abbreviation))
             THEN outcomes(get_card_set_and_number_for_name(w, c.english_name), "by_name", by_name)
             ELSE IF ~Truthy(c.collector_number)
             THEN outcomes(get_collector_number_for_card_in_set(w, c.english_name, c.set_abbreviation),
                           "by_name_set", by_name_set)
             ELSE IF ~Truthy(c.set_abbreviation)
             THEN outcomes(get_card_set_for_card_with_collector_number(w, c.english_name, c.collector_number),
                           "by_name_number", by_name_number)
             ELSE {done(c, "none")}
        ELSE IF Truthy(c.set_abbreviation) /\ Truthy(c.collector_number)
             THEN outcomes(get_english_name_for_card_in_card_set(w, c.set_abbreviation, c.collector_number),
                           "by_set_number", by_set_number)
             ELSE {done(c, "none")}

\* The chain with the side board taken first.
SideBoardFirst(main, side, maybe, acquire) == side \o main \o maybe \o acquire

\* itertools.chain(main_deck, side_board, maybe_board, acquire_bord)
all_cards(main, side, maybe, acquire) == main \o side \o maybe \o acquire

\* The loop of fill_missing_information over the references in `chain`: the
\* possible outcomes, each with the objects' fields afterwards and the log of
\* the visits made.  The loop ends at the first lookup that raises.
\* The loop going on to the next card when a lookup raises.
RECURSIVE FillLoopSwallows(_, _, _, _)
FillLoopSwallows(heap, chain, w, log) ==
    IF chain = << >>
    THEN {[cards |-> heap, out |-> "ok", log |-> log]}
    ELSE UNION {FillLoopSwallows([heap EXCEPT ![Head(chain)] = r.card], Tail(chain), w,
                                 Append(log, [card |-> Head(chain), before |-> heap[Head(chain)],
                                              after |-> r.card, lookup |-> r.lookup, out |-> r.out])) :
                    r \in fill_information_for_card(heap[Head(chain)], w)}

RECURSIVE FillLoop(_, _, _, _)
FillLoop(heap, chain, w, log) ==
    IF chain = << >>
    THEN {[cards |-> heap, out |-> "ok", log |-> log]}
    ELSE LET id == Head(chain)
             visit(r) == [card |-> id, before |-> heap[id], after |-> r.card,
                          lookup |-> r.lookup, out |-> r.out]
         IN  UNION {IF r.out = "ok"
                    THEN FillLoop([heap EXCEPT ![id] = r.card], Tail(chain), w, Append(log, visit(r)))
                    ELSE {[cards |-> heap, out |-> r.out, log |-> Append(log, visit(r))]} :
                        r \in fill_information_for_card(heap[id], w)}

fill_missing_information(heap, main, side, maybe, acquire, w) ==
    FillLoop(heap, all_cards(main, side, maybe, acquire), w, << >>)

\* _add_to_deck: the list and the commanders after appending the reference.
add_to_deck(deck, cmds, card, is_commander) ==
    [deck |-> Append(deck, card),
     commanders |-> IF is_commander THEN Append(cmds, card) ELSE cmds]

(***************************************************************************)
(* The card database as a state machine: one handle on one database file.  *)
(***************************************************************************)
Island == <<"I", "s", "l", "a", "n", "d">>
Bolt == <<"B", "o", "l", "t">>
Opt == <<"O", "p", "t">>

\* Bulk data records (the fields populate_database reads).
SampleCards == {
    [name |-> Island, oracle_id |-> "oracle-island", set |-> <<"m", "1">>, set_name |-> "Core",
     collector_number |-> <<"2", "6">>, id |-> "print-1", rarity |-> <<"c", "o", "m", "m", "o", "n">>,
     released_at |-> "2018-07-13"],
    [name |-> Island, oracle_id |-> "oracle-island", set |-> <<"x", "2">>, set_name |-> "Ixalan",
     collector_number |-> <<"8", "a">>, id |-> "print-2", rarity |-> <<"r", "a", "r", "e">>,
     released_at |-> "2017-09-29"],
    [name |-> Bolt, oracle_id |-> "oracle-bolt", set |-> <<"m", "1">>, set_name |-> "Core",
     collector_number |-> <<"7">>, id |-> "print-3", rarity |-> <<"r", "a", "r", "e">>,
     released_at |-> "2018-07-13"],
    [name |-> Bolt, oracle_id |-> "oracle-bolt", set |-> <<"z", "9">>, set_name |-> "Broken",
     collector_number |-> <<"1">>, id |-> "print-4", rarity |-> <<"c", "o", "m", "m", "o", "n">>,
     released_at |-> "13.07.2018"],
    [name |-> Bolt, oracle_id |-> "oracle-bolt", set |-> <<"P", "3">>, set_name |-> "Promo",
     collector_number |-> <<"9", "A">>, id |-> "print-5", rarity |-> <<"m", "y", "t", "h", "i", "c">>,
     released_at |-> "2017-09-29"],
    [name |-> Opt, oracle_id |-> "oracle-opt", set |-> <<"m", "1">>, set_name |-> "Core",
     collector_number |-> <<"3">>, id |-> "print-6", rarity |-> <<"s", "p", "e", "c", "i", "a", "l">>,
     released_at |-> "2018-07-13"]}

MaxBatch == 2

RECURSIVE SeqsUpTo(_, _)
SeqsUpTo(S, n) ==
    IF n = 0 THEN {<< >>}
    ELSE LET shorter == SeqsUpTo(S, n - 1)
         IN  shorter \cup {Append(q, x) : q \in {t \in shorter : Len(t) = n - 1}, x \in S}

\* What _request_scryfall_card_data may give.
Sources == {[ok |-> FALSE, data |-> << >>]}
           \cup {[ok |-> TRUE, data |-> b] : b \in SeqsUpTo(SampleCards, MaxBatch)}

\* The bulk data is requested only when the database is not populated.
NotRequested == [ok |-> FALSE, data |-> << >>]
RequestedSources(w) == IF is_database_populated(w) THEN {NotRequested} ELSE Sources

\* Versions a database file found on disk may have (0: a new, empty file).
MaxFileVersion == 6
FileVersions == 0..MaxFileVersion

LookupNames == {Island, Bolt, Opt, <<"S", "w", "a", "m", "p">>}
LookupSets == {<<"m", "1">>, <<"M", "1">>, <<"x", "2">>, <<"p", "3">>, <<"P", "3">>, <<"q", "7">>}
LookupNumbers == {<<"2", "6">>, <<"8", "a">>, <<"8", "A">>, <<"7">>, <<"9", "a">>}

Snapshot == [file |-> file, work |-> work, in_transaction |-> in_transaction,
             foreign_keys |-> foreign_keys, conn |-> conn, closed_count |-> closed_count]

CodecIdle ==
    /\ triple = <<0, 0, 0>>
    /\ name = << >>
    /\ encoded = << >>
    /\ decoded = << >>
    /\ cpc = "idle"

LastIdle ==
    /\ lastOp = "none"
    /\ lastArgs = << >>
    /\ lastOut = "none"
    /\ lastRes = << >>
    /\ lastPre = << >>

DeckIdle ==
    /\ cards = << >>
    /\ main_deck = << >>
    /\ side_board = << >>
    /\ maybe_board = << >>
    /\ acquire_bord = << >>
    /\ commanders = << >>

DbIdle ==
    /\ file = EmptyStore(0)
    /\ work = EmptyStore(0)
    /\ in_transaction = FALSE
    /\ foreign_keys = FALSE
    /\ conn = "unopened"
    /\ handle = "none"
    /\ closed_count = 0
    /\ exited = FALSE

DbInit ==
    /\ file \in {EmptyStore(v) : v \in FileVersions}
    /\ work = file
    /\ in_transaction = FALSE
    /\ foreign_keys = FALSE
    /\ conn = "unopened"
    /\ handle = "none"
    /\ closed_count = 0
    /\ exited = FALSE
    /\ LastIdle
    /\ DeckIdle
    /\ CodecIdle
    /\ patches = {}

\* db = CardDatabase(path, do_validate_schema)
Open ==
    /\ handle = "none"
    /\ ~exited
    /\ \E do_validate_schema \in BOOLEAN :
        \E r \in {open_database(file, do_validate_schema)} :
            /\ file' = r.file
            /\ work' = r.work
            /\ in_transaction' = r.in_transaction
            /\ foreign_keys' = r.foreign_keys
            /\ conn' = "open"
            /\ handle' = IF r.out = "ok" THEN "ready" ELSE "failed"
            /\ lastOp' = "open"
            /\ lastArgs' = <<do_validate_schema>>
            /\ lastOut' = r.out
            /\ lastRes' = << >>
            /\ lastPre' = Snapshot
    /\ UNCHANGED <<closed_count, exited, codecVars, patches, deckVars>>

\* db.populate_database(path_to_data); the result kept: whether the bulk data
\* was requested, the rows written, and the printing ids of a committed batch.
Populate ==
    /\ handle = "ready"
    /\ conn = "open"
    /\ ~exited
    /\ \E source \in RequestedSources(work) :
        \E r \in {populate_database(file, work, source)} :
            /\ file' = r.file
            /\ work' = r.work
            /\ in_transaction' = IF r.ended_txn THEN FALSE ELSE in_transaction
            /\ lastOp' = "populate"
            /\ lastArgs' = << >>
            /\ lastOut' = r.out
            /\ lastRes' = <<r.fetched, r.written,
                            IF r.out = "ok" THEN [i \in 1..Len(source.data) |-> source.data[i].id]
                            ELSE << >> >>
            /\ lastPre' = Snapshot
    /\ UNCHANGED <<foreign_keys, conn, handle, closed_count, exited, codecVars, patches, deckVars>>

\* db._close_db() called by the owner of the handle.
Close ==
    /\ handle = "ready"
    /\ ~exited
    /\ \E r \in {close_db(conn, file, work, closed_count)} :
           /\ conn' = r.conn
           /\ file' = r.file
           /\ work' = r.work
           /\ closed_count' = r.closed_count
           /\ in_transaction' = IF r.out = "ok" THEN FALSE ELSE in_transaction
           /\ lastOp' = "close"
           /\ lastArgs' = << >>
           /\ lastOut' = r.out
           /\ lastRes' = << >>
           /\ lastPre' = Snapshot
    /\ UNCHANGED <<foreign_keys, handle, exited, codecVars, patches, deckVars>>

\* The process exits: atexit runs the _close_db registered by __init__.
AtExit ==
    /\ handle \in {"ready", "failed"}
    /\ ~exited
    /\ \E r \in {close_db(conn, file, work, closed_count)} :
           /\ conn' = r.conn
           /\ file' = r.file
           /\ work' = r.work
           /\ closed_count' = r.closed_count
           /\ in_transaction' = IF r.out = "ok" THEN FALSE ELSE in_transaction
           /\ lastOp' = "atexit"
           /\ lastArgs' = << >>
           /\ lastOut' = r.out
           /\ lastRes' = << >>
           /\ lastPre' = Snapshot
    /\ exited' = TRUE
    /\ UNCHANGED <<foreign_keys, handle, codecVars, patches, deckVars>>

DbNext ==
    \/ Open
    \/ Populate
    \/ Close
    \/ AtExit

SpecDb == DbInit /\ [][DbNext]_vars

(***************************************************************************)
(* Properties of the card database.                                        *)
(***************************************************************************)
\* C1: if an exception is raised while the batch is inserted, it propagates and
\* afterwards the committed store holds exactly the rows it held before the
\* call (and so does a read through the connection), so is_database_populated()
\* is still false.
C1_PopulateAtomic ==
    (lastOp = "populate" /\ lastOut = "raised") =>
        /\ file = lastPre.file
        /\ work = file
        /\ ~is_database_populated(work)

\* C1 witness: a populate that raised after the loop had written rows of an
\* earlier record and of the failing one.
C1_RaisedMidBatch ==
    /\ lastOp = "populate"
    /\ lastOut = "raised"
    /\ lastRes[2] >= 4

\* C2: populating twice with the same batch leaves the store as populating
\* once does; and when a Printing row exists the call writes nothing and does
\* not request the bulk data.
C2_PopulateIdempotent ==
    /\ (handle = "ready" /\ conn = "open") =>
            \A s \in RequestedSources(work) :
                LET r1 == populate_database(file, work, s)
                    r2 == populate_database(r1.file, r1.work, s)
                IN  r2.file = r1.file /\ r2.work = r1.work
    /\ (lastOp = "populate" /\ Len(lastPre.work.Printing) > 0) =>
            /\ lastOut = "skipped"
            /\ lastRes[1] = FALSE
            /\ file = lastPre.file
            /\ work = lastPre.work

\* C2 witness: populate_database called on a populated store.
C2_SecondPopulate ==
    /\ lastOp = "populate"
    /\ lastOut = "skipped"
    /\ Len(work.Printing) > 1

\* C5: opening with do_validate_schema fails with the schema version error
\* exactly when the version read after schema creation is below inclusive_min
\* or at or above exclusive_max.
C5_ValidateOnOpen ==
    (lastOp = "open" /\ lastArgs[1]) =>
        /\ (lastOut = "ConnectionAbortedError") <=>
                (work.user_version < inclusive_min \/ work.user_version >= exclusive_max)
        /\ (lastOut = "ok") <=>
                (inclusive_min <= work.user_version /\ work.user_version < exclusive_max)
        /\ (handle = "ready") <=> (lastOut = "ok")

\* C5 witness: a checked open refused at exactly exclusive_max.
C5_RefusedAtMax ==
    /\ lastOp = "open"
    /\ lastArgs[1]
    /\ lastOut = "ConnectionAbortedError"
    /\ work.user_version = exclusive_max

\* C6: the first close on a handle releases the connection, every later close
\* (the exit hook's too) fails with the double-close error, and the connection
\* is closed at most once.
C6_CloseOnce ==
    /\ closed_count <= 1
    /\ (lastOp \in {"close", "atexit"}) =>
            IF lastPre.closed_count = 0
            THEN lastOut = "ok" /\ conn = "closed" /\ closed_count = 1
            ELSE lastOut = "RuntimeError" /\ conn = "closed" /\ closed_count = lastPre.closed_count

\* C6 witness: the exit hook runs after the handle was closed by its owner.
C6_ExitAfterClose ==
    /\ lastOp = "atexit"
    /\ lastOut = "RuntimeError"
    /\ closed_count = 1

\* C15: after every successful open, of a new database file or of one that
\* has a schema, foreign-key enforcement is on for the connection.
C15_ForeignKeysOnAfterOpen ==
    (lastOp = "open" /\ lastOut = "ok") => foreign_keys

\* A checked open of a database file that has a schema turns it on.
C15_ForeignKeysOnCheckedExisting ==
    (lastOp = "open" /\ lastOut = "ok" /\ lastArgs[1] /\ lastPre.file.user_version # 0) => foreign_keys

\* The five basic lands and the title-cased rarities, spelled out.
FiveBasicLands == {<<"P", "l", "a", "i", "n", "s">>, <<"I", "s", "l", "a", "n", "d">>,
                   <<"S", "w", "a", "m", "p">>, <<"M", "o", "u", "n", "t", "a", "i", "n">>,
                   <<"F", "o", "r", "e", "s", "t">>}
TitleCased(rarity) ==
    CASE rarity = <<"c", "o", "m", "m", "o", "n">> -> <<"C", "o", "m", "m", "o", "n">>
      [] rarity = <<"r", "a", "r", "e">> -> <<"R", "a", "r", "e">>
      [] rarity = <<"m", "y", "t", "h", "i", "c">> -> <<"M", "y", "t", "h", "i", "c">>
      [] rarity = <<"s", "p", "e", "c", "i", "a", "l">> -> <<"S", "p", "e", "c", "i", "a", "l">>
RecordOf(id) == CHOOSE r \in SampleCards : r.id = id
StoredRarityRight(w) ==
    \A i \in 1..Len(w.Printing) :
        w.Printing[i].Rarity = IF RecordOf(w.Printing[i].Scryfall_Card_ID).name \in FiveBasicLands
                               THEN <<"L", "a", "n", "d">>
                               ELSE TitleCased(RecordOf(w.Printing[i].Scryfall_Card_ID).rarity)

\* C18: every stored Printing of a record named Plains, Island, Swamp,
\* Mountain or Forest has rarity "Land", whatever the record's rarity, and
\* every other stored Printing has the record's rarity title-cased.
C18_RaritySubstitution ==
    StoredRarityRight(work) /\ StoredRarityRight(file)

\* C18 witness: a committed batch of an Island of nominal rarity "rare" and a
\* card that is no basic land.
C18_StoredLandAndRare ==
    /\ lastOp = "populate"
    /\ lastOut = "ok"
    /\ Len(file.Printing) = 2
    /\ file.Printing[1].Scryfall_Card_ID = "print-2"
    /\ file.Printing[1].Rarity = <<"L", "a", "n", "d">>
    /\ file.Printing[2].Scryfall_Card_ID = "print-3"
    /\ file.Printing[2].Rarity = <<"R", "a", "r", "e">>

\* The batch the last populate_database committed, by the records' printing
\* ids.
BatchIds == lastRes[3]
PrintingOfRecord(w, i, rec) ==
    /\ w.Printing[i].Scryfall_Card_ID = rec.id
    /\ w.Printing[i].Collector_Number = rec.collector_number
    /\ w.Card[w.Printing[i].Card_ID].Scryfall_Oracle_ID = rec.oracle_id
    /\ w.Card_Set[w.Printing[i].Set_ID].Abbreviation = rec.set
OnePrintingPerRecord(w) ==
    /\ Len(w.Printing) = Len(BatchIds)
    /\ \A i \in 1..Len(BatchIds) : PrintingOfRecord(w, i, RecordOf(BatchIds[i]))

\* C25: a successful populate_database on an unpopulated store stores one
\* Printing row per record of the batch: N rows for N records, the i-th
\* with the card, set, collector number and printing id of the i-th record,
\* whatever the records' rarities.
C25_OnePrintingPerRecord ==
    (lastOp = "populate" /\ lastOut = "ok") =>
        (OnePrintingPerRecord(work) /\ file = work)

\* The same for batches whose rarities, title-cased, are rows of the Rarity
\* table.
C25_OnePrintingPerListedRarity ==
    (/\ lastOp = "populate"
     /\ lastOut = "ok"
     /\ \A i \in 1..Len(BatchIds) :
            \/ RecordOf(BatchIds[i]).name \in FiveBasicLands
            \/ TitleCased(RecordOf(BatchIds[i]).rarity) \in RarityTable) =>
        (OnePrintingPerRecord(work) /\ file = work)

UniqueKeys(w) ==
    /\ \A i, j \in 1..Len(w.Card) :
            (w.Card[i].Scryfall_Oracle_ID = w.Card[j].Scryfall_Oracle_ID) => i = j
    /\ \A i, j \in 1..Len(w.Card_Set) :
            (w.Card_Set[i].Abbreviation = w.Card_Set[j].Abbreviation) => i = j

\* C26: in every state, whatever populate_database calls succeeded or
\* failed, no two Card rows have the same oracle id and no two Card_Set rows
\* the same abbreviation.
C26_UniqueCardsAndSets ==
    UniqueKeys(work) /\ UniqueKeys(file)

\* C26 witness: a committed batch of two printings of one card.
C26_TwoPrintingsOneCard ==
    /\ lastOp = "populate"
    /\ lastOut = "ok"
    /\ Len(BatchIds) = 2
    /\ Len(file.Printing) = 2
    /\ Len(file.Card) = 1
    /\ Len(file.Card_Set) = 2

(***************************************************************************)
(* The lookups, each applied once to a store populate_database has filled. *)
(***************************************************************************)
PopulatedStores ==
    {populate_database(EmptyStore(SchemaScriptVersion), EmptyStore(SchemaScriptVersion), s).work :
        s \in Sources}

LookupInit ==
    /\ file \in PopulatedStores
    /\ work = file
    /\ in_transaction = FALSE
    /\ foreign_keys = FALSE
    /\ conn = "open"
    /\ handle = "ready"
    /\ closed_count = 0
    /\ exited = FALSE
    /\ LastIdle
    /\ DeckIdle
    /\ CodecIdle
    /\ patches = {}

\* A lookup: op with its arguments, `found` the values it may return.
Lookup(op, args, found) ==
    /\ lastOp' = op
    /\ lastArgs' = args
    /\ lastPre' = Snapshot
    /\ IF found = {}
       THEN lastOut' = "ValueError" /\ lastRes' = << >>
       ELSE lastOut' = "ok" /\ \E x \in found : lastRes' = <<x>>
    /\ UNCHANGED <<dbVars, codecVars, patches, deckVars>>

CanQuery == handle = "ready" /\ conn = "open" /\ ~exited /\ lastOp = "none"

LookupByName ==
    /\ CanQuery
    /\ \E n \in LookupNames :
        Lookup("by_name", <<n>>, get_card_set_and_number_for_name(work, n))

LookupByNameAndSet ==
    /\ CanQuery
    /\ \E n \in LookupNames, s \in LookupSets :
        Lookup("by_name_set", <<n, s>>, get_collector_number_for_card_in_set(work, n, s))

LookupByNameAndNumber ==
    /\ CanQuery
    /\ \E n \in LookupNames, c \in LookupNumbers :
        Lookup("by_name_number", <<n, c>>,
               get_card_set_for_card_with_collector_number(work, n, c))

LookupBySetAndNumber ==
    /\ CanQuery
    /\ \E s \in LookupSets, c \in LookupNumbers :
        Lookup("by_set_number", <<s, c>>, get_english_name_for_card_in_card_set(work, s, c))

IsSetKnown ==
    /\ CanQuery
    /\ \E s \in LookupSets :
        /\ lastOp' = "is_set_known"
        /\ lastArgs' = <<s>>
        /\ lastOut' = "ok"
        /\ lastRes' = <<is_set_abbreviation_known(work, s)>>
        /\ lastPre' = Snapshot
        /\ UNCHANGED <<dbVars, codecVars, patches, deckVars>>

LookupNext ==
    \/ LookupByName
    \/ LookupByNameAndSet
    \/ LookupByNameAndNumber
    \/ LookupBySetAndNumber
    \/ IsSetKnown

SpecLookup == LookupInit /\ [][LookupNext]_vars

(***************************************************************************)
(* Properties of the lookups. A printing matches a name exactly, and a set *)
(* abbreviation or collector number up to letter case.                     *)
(***************************************************************************)
PrintingIds(w) == 1..Len(w.Printing)
PrintingName(w, i) == w.Card[w.Printing[i].Card_ID].English_Name
PrintingSet(w, i) == w.Card_Set[w.Printing[i].Set_ID].Abbreviation
PrintingNumber(w, i) == w.Printing[i].Collector_Number
SameNoCase(a, b) == lower(a) = lower(b)

\* C8: each of the four lookups raises the not-found error exactly when no
\* printing of the store matches all its arguments, and otherwise returns the
\* field(s) of a printing that matches them all.
C8_LookupsFindMatchingPrinting ==
    /\ (lastOp = "by_name") =>
            LET M == {i \in PrintingIds(work) : PrintingName(work, i) = lastArgs[1]}
            IN  /\ (lastOut = "ValueError") <=> (M = {})
                /\ (lastOut = "ok") =>
                        \E i \in M : /\ SameNoCase(PrintingSet(work, i), lastRes[1][1])
                                     /\ SameNoCase(PrintingNumber(work, i), lastRes[1][2])
    /\ (lastOp = "by_name_set") =>
            LET M == {i \in PrintingIds(work) : /\ PrintingName(work, i) = lastArgs[1]
                                                /\ SameNoCase(PrintingSet(work, i), lastArgs[2])}
            IN  /\ (lastOut = "ValueError") <=> (M = {})
                /\ (lastOut = "ok") =>
                        \E i \in M : SameNoCase(PrintingNumber(work, i), lastRes[1])
    /\ (lastOp = "by_name_number") =>
            LET M == {i \in PrintingIds(work) : /\ PrintingName(work, i) = lastArgs[1]
                                                /\ SameNoCase(PrintingNumber(work, i), lastArgs[2])}
            IN  /\ (lastOut = "ValueError") <=> (M = {})
                /\ (lastOut = "ok") =>
                        \E i \in M : SameNoCase(PrintingSet(work, i), lastRes[1])
    /\ (lastOp = "by_set_number") =>
            LET M == {i \in PrintingIds(work) : /\ SameNoCase(PrintingSet(work, i), lastArgs[1])
                                                /\ SameNoCase(PrintingNumber(work, i), lastArgs[2])}
            IN  /\ (lastOut = "ValueError") <=> (M = {})
                /\ (lastOut = "ok") => \E i \in M : PrintingName(work, i) = lastRes[1]

\* C8 witness: a (name, set) lookup given an upper-case abbreviation found the
\* collector number of a printing, in a store with several printings.
C8_FoundByNameAndSet ==
    /\ lastOp = "by_name_set"
    /\ lastOut = "ok"
    /\ lastArgs[2] # lower(lastArgs[2])
    /\ Len(work.Printing) > 1

\* C9: every lookup that takes a set abbreviation or a collector number gives
\* the same outcome for arguments that differ only in letter case
\* (is_set_abbreviation_known included).
C9_CaseInsensitiveLookups ==
    /\ (lastOp = "by_name_set") =>
            \A s \in LookupSets : SameNoCase(s, lastArgs[2]) =>
                get_collector_number_for_card_in_set(work, lastArgs[1], s)
                    = get_collector_number_for_card_in_set(work, lastArgs[1], lastArgs[2])
    /\ (lastOp = "by_name_number") =>
            \A c \in LookupNumbers : SameNoCase(c, lastArgs[2]) =>
                get_card_set_for_card_with_collector_number(work, lastArgs[1], c)
                    = get_card_set_for_card_with_collector_number(work, lastArgs[1], lastArgs[2])
    /\ (lastOp = "by_set_number") =>
            \A s \in LookupSets, c \in LookupNumbers :
                (SameNoCase(s, lastArgs[1]) /\ SameNoCase(c, lastArgs[2])) =>
                    get_english_name_for_card_in_card_set(work, s, c)
                        = get_english_name_for_card_in_card_set(work, lastArgs[1], lastArgs[2])
    /\ (lastOp = "is_set_known") =>
            \A s \in LookupSets : SameNoCase(s, lastArgs[1]) =>
                is_set_abbreviation_known(work, s) = lastRes[1]

\* C9, the part that holds: the three lookups that lower-case their arguments.
C9_LoweringLookups ==
    (lastOp # "is_set_known") => C9_CaseInsensitiveLookups

(***************************************************************************)
(* The session with writes made through the connection db.db by the        *)
(* caller: a statement that is pending until the caller commits.           *)
(***************************************************************************)
WrittenCards == {[English_Name |-> Opt, Scryfall_Oracle_ID |-> "oracle-w1"]}

\* db.db.execute("INSERT INTO Card ..."): the statement opens a transaction
\* if none is open and its row is pending.
Execute ==
    /\ handle = "ready"
    /\ conn = "open"
    /\ ~exited
    /\ \E row \in WrittenCards :
        /\ ~CardExists(work, row.Scryfall_Oracle_ID)
        /\ work' = [work EXCEPT !.Card = Append(@, row)]
        /\ lastArgs' = <<row>>
    /\ in_transaction' = TRUE
    /\ lastOp' = "execute"
    /\ lastOut' = "ok"
    /\ lastRes' = << >>
    /\ lastPre' = Snapshot
    /\ UNCHANGED <<file, foreign_keys, conn, handle, closed_count, exited, codecVars, patches, deckVars>>

\* db.db.commit()
Commit ==
    /\ handle = "ready"
    /\ conn = "open"
    /\ ~exited
    /\ work # file
    /\ file' = commit(file, work)
    /\ in_transaction' = FALSE
    /\ lastOp' = "commit"
    /\ lastArgs' = << >>
    /\ lastOut' = "ok"
    /\ lastRes' = << >>
    /\ lastPre' = Snapshot
    /\ UNCHANGED <<work, foreign_keys, conn, handle, closed_count, exited, codecVars, patches, deckVars>>

SessionNext ==
    \/ Open
    \/ Populate
    \/ Execute
    \/ Commit
    \/ Close
    \/ AtExit

SpecSession == DbInit /\ [][SessionNext]_vars

\* C16: closing discards every write that was not committed: after a close
\* the database file holds what was committed before it, the connection holds
\* nothing else, and opening the file again reads the committed state.
C16_CloseDiscardsPending ==
    (lastOp \in {"close", "atexit"} /\ lastOut = "ok") =>
        /\ file = lastPre.file
        /\ work = lastPre.file
        /\ open_database(file, FALSE).work = lastPre.file

\* C16 witness: a close with a write pending on top of committed writes.
C16_ClosedWithPendingWrite ==
    /\ lastOp = "close"
    /\ lastOut = "ok"
    /\ lastPre.work # lastPre.file
    /\ Len(lastPre.file.Card) > 0

(***************************************************************************)
(* The codec applied to version strings "major.minor.patch".               *)
(***************************************************************************)
Majors == {0, 1, 12, 999, 1000, 1234, 9999}
Minors == {0, 7, 10, 999, 1000}
Patches == {0, 3, 100, 999}

MajorMax == 9999
MinorMax == 999

InRange(t) == t[1] <= MajorMax /\ t[2] <= MinorMax /\ t[3] <= MinorMax

\* f"{major}.{minor}.{patch}"
FormatTriple(t) == str(t[1]) \o Dot \o str(t[2]) \o Dot \o str(t[3])

CodecInit ==
    /\ triple \in Majors \X Minors \X Patches
    /\ name = FormatTriple(triple)
    /\ encoded = << >>
    /\ decoded = << >>
    /\ cpc = "input"
    /\ DbIdle
    /\ LastIdle
    /\ DeckIdle
    /\ patches = {}

\* parse_patch_name(name): for a name "major.minor.patch" of digits no
\* statement of it raises, so it returns.
Encode ==
    /\ cpc = "input"
    /\ encoded' = parse_patch_name(name)
    /\ cpc' = "encoded"
    /\ lastOp' = "parse_patch_name"
    /\ lastOut' = "ok"
    /\ UNCHANGED <<triple, name, decoded, dbVars, lastArgs, lastRes, lastPre, patches, deckVars>>

Decode ==
    /\ cpc = "encoded"
    /\ decoded' = version_str(encoded)
    /\ cpc' = "decoded"
    /\ UNCHANGED <<triple, name, encoded, dbVars, lastVars, patches, deckVars>>

CodecNext == Encode \/ Decode

SpecCodec == CodecInit /\ [][CodecNext]_vars

\* C7: for every in-range (major, minor, patch), version_str(parse_patch_name(
\* "major.minor.patch")) is the three-part dotted string "major.minor.patch".
C7_RoundTrip == (cpc = "decoded" /\ InRange(triple)) => decoded = name

\* The order of triples and of the integers parse_patch_name gives.
LexLess(t, u) ==
    \/ t[1] < u[1]
    \/ t[1] = u[1] /\ t[2] < u[2]
    \/ t[1] = u[1] /\ t[2] = u[2] /\ t[3] < u[3]
BigLess(a, b) ==
    IF Len(a) # Len(b) THEN Len(a) < Len(b)
    ELSE \E i \in 1..Len(a) : a[i] < b[i] /\ \A j \in (i + 1)..Len(a) : a[j] = b[j]

\* C19: for in-range triples t and u, t is lexicographically smaller than u
\* exactly when parse_patch_name of t is smaller than parse_patch_name of u,
\* and distinct triples never give the same integer.
C19_EncodingMonotonic ==
    (cpc = "encoded" /\ InRange(triple)) =>
        \A u \in {x \in Majors \X Minors \X Patches : InRange(x)} :
            /\ LexLess(triple, u) <=> BigLess(encoded, parse_patch_name(FormatTriple(u)))
            /\ (triple # u) => encoded # parse_patch_name(FormatTriple(u))

\* C19 witness: the encoding of 1.0.0, next to that of 0.999.999.
C19_EncodedNextMajor ==
    /\ cpc = "encoded"
    /\ triple = <<1, 0, 0>>
    /\ encoded = <<0, 0, 1>>
    /\ parse_patch_name(FormatTriple(<<0, 999, 999>>)) = <<999, 999>>

\* C27: parse_patch_name of a version with a component out of range (major
\* above 9999, minor or patch above 999) fails with an error; it returns no
\* integer, and so never the encoding of an in-range version.
C27_OutOfRangeRejected ==
    (lastOp = "parse_patch_name" /\ ~InRange(triple)) =>
        /\ lastOut = "ValueError"
        /\ \A u \in {x \in Majors \X Minors \X Patches : InRange(x)} :
                encoded # parse_patch_name(FormatTriple(u))

\* The integer returned for 0.1000.0 is the encoding of 1.0.0.
C27_CollidesWithInRange ==
    (cpc = "encoded" /\ triple = <<0, 1000, 0>>) =>
        (lastOut = "ok" /\ encoded = parse_patch_name(FormatTriple(<<1, 0, 0>>)))

(***************************************************************************)
(* Migration as a state machine: a database file is opened and             *)
(* update_database_schema runs, any number of times, over a patch          *)
(* directory.                                                              *)
(***************************************************************************)
V002 == <<"0", ".", "0", ".", "2">>
V003 == <<"0", ".", "0", ".", "3">>
V004 == <<"0", ".", "0", ".", "4">>
V005 == <<"0", ".", "0", ".", "5">>

V0010 == <<"0", ".", "0", ".", "1", "0">>

FolderNames == {V002, V003, V004, <<"0", ".", "3">>}
ValidFolderNames == {n \in FolderNames : fullmatch_semver(n)}
FileNames == {V003 \o DotSql, V004 \o DotSql, V005 \o DotSql}

\* What a script may set: the version its name declares, or another one.
WrongVersion == 9
ScriptVersions(script) ==
    {IntOf(parse_patch_name(script))} \cup (IF script = V004 \o DotSql THEN {WrongVersion} ELSE {})

\* Two more scripts of the folder 0.0.4: 0.0.10.sql, the highest target in
\* numeric order but not in lexicographic order, and 0.5.sql, a name that
\* is no version.
ExtraScripts ==
    {[folder |-> V004, file |-> V0010 \o DotSql, sets |-> 10],
     [folder |-> V004, file |-> <<"0", ".", "5">> \o DotSql, sets |-> 5]}

DirEntries ==
    {[folder |-> d, file |-> << >>, sets |-> 0] : d \in FolderNames \cup {V0010}}
    \cup ExtraScripts
    \cup UNION {{[folder |-> e[1], file |-> e[2], sets |-> v] : v \in ScriptVersions(e[2])} :
                    e \in ValidFolderNames \X FileNames}

\* A file name occurs once in a folder.
IsDirectory(dir) ==
    /\ \A e1, e2 \in dir : (e1.folder = e2.folder /\ e1.file = e2.file) => e1 = e2

MaxEntries == 2

RECURSIVE SubsetsUpTo(_, _)
SubsetsUpTo(S, n) ==
    IF n = 0 THEN {{}}
    ELSE LET smaller == SubsetsUpTo(S, n - 1)
         IN  smaller \cup {d \cup {x} : d \in smaller, x \in S}

Directories(n) == {d \in SubsetsUpTo(DirEntries, n) : IsDirectory(d)}

MigFileVersions == {0, 2, 3, 4}

MigInit ==
    /\ patches \in Directories(MaxEntries)
    /\ file \in {EmptyStore(v) : v \in MigFileVersions}
    /\ work = file
    /\ in_transaction = FALSE
    /\ foreign_keys = FALSE
    /\ conn = "unopened"
    /\ handle = "none"
    /\ closed_count = 0
    /\ exited = FALSE
    /\ LastIdle
    /\ DeckIdle
    /\ CodecIdle

\* db = CardDatabase(path, do_validate_schema=False)
OpenUnchecked ==
    /\ handle = "none"
    /\ \E r \in {open_database(file, FALSE)} :
           /\ file' = r.file
           /\ work' = r.work
           /\ in_transaction' = r.in_transaction
           /\ foreign_keys' = r.foreign_keys
           /\ conn' = "open"
           /\ handle' = "ready"
           /\ lastOp' = "open"
           /\ lastArgs' = <<FALSE>>
           /\ lastOut' = r.out
           /\ lastRes' = << >>
           /\ lastPre' = Snapshot
    /\ UNCHANGED <<closed_count, exited, codecVars, patches, deckVars>>

\* update_database_schema(db)
Migrate ==
    /\ handle = "ready"
    /\ conn = "open"
    /\ \E r \in {update_database_schema(file, work, in_transaction, patches)} :
           /\ file' = r.file
           /\ work' = r.work
           /\ in_transaction' = r.in_transaction
           /\ lastOp' = "migrate"
           /\ lastArgs' = << >>
           /\ lastOut' = r.out
           /\ lastRes' = <<r.applied, r.why, r.log>>
           /\ lastPre' = Snapshot
    /\ UNCHANGED <<foreign_keys, conn, handle, closed_count, exited, codecVars, patches, deckVars>>

\* A statement the caller executes on db.db after opening and before migrating.
ExecuteAfterOpen ==
    /\ lastOp = "open"
    /\ Execute

MigNext ==
    \/ OpenUnchecked
    \/ ExecuteAfterOpen
    \/ Migrate

SpecMigration == MigInit /\ [][MigNext]_vars

(***************************************************************************)
(* Properties of the migration engine.                                     *)
(***************************************************************************)
\* The scripts of the folder whose name is version v, a script's declared
\* target, and the folder's script with the highest target.
VersionOf(n) == IntOf(parse_patch_name(n))
ScriptsFrom(dir, v) ==
    {e \in dir : Len(e.file) > 0 /\ fullmatch_semver(e.folder) /\ VersionOf(e.folder) = v}
HighestFrom(dir, v) ==
    CHOOSE e \in ScriptsFrom(dir, v) : \A x \in ScriptsFrom(dir, v) : VersionOf(x.file) <= VersionOf(e.file)

\* Where the chain of selected patches leads from v when every selected patch
\* advances the version and sets the version it declares; -1 when one does not.
RECURSIVE ChainEnd(_, _)
ChainEnd(dir, v) ==
    IF ScriptsFrom(dir, v) = {} THEN v
    ELSE LET e == HighestFrom(dir, v)
         IN  IF VersionOf(e.file) > v /\ e.sets = VersionOf(e.file)
             THEN ChainEnd(dir, VersionOf(e.file))
             ELSE -1

Compatible(v) == inclusive_min <= v /\ v < exclusive_max

AdvancesFrom(dir, v) ==
    /\ \A e \in dir : fullmatch_semver(e.folder)
    /\ \A e \in dir : Len(e.file) > 0 => fullmatch_file(e.file)
    /\ ChainEnd(dir, v) > v
    /\ Compatible(ChainEnd(dir, v))

\* C3: for a store at version V and patch groups whose chain of selected
\* patches advances V to a compatible V2 > V, the version after
\* update_database_schema is V2, and running it again on the store applies no
\* patch and leaves the version at V2.
C3_MigrateThenNoOp ==
    (lastOp = "migrate" /\ AdvancesFrom(patches, lastPre.work.user_version)) =>
        LET V2 == ChainEnd(patches, lastPre.work.user_version)
            again == update_database_schema(file, work, in_transaction, patches)
        IN  /\ get_current_schema_version(work) = V2
            /\ get_current_schema_version(file) = V2
            /\ (lastOut = "ok") <=> (\A e \in patches : VersionOf(e.folder) <= V2)
            /\ again.applied = 0
            /\ again.out = lastOut
            /\ again.file = file
            /\ again.work = work

\* C3 witness: a migration that applied two patches, one after the other, and
\* succeeded.
C3_MigratedInTwoSteps ==
    /\ lastOp = "migrate"
    /\ AdvancesFrom(patches, lastPre.work.user_version)
    /\ lastOut = "ok"
    /\ lastRes[1] = 2

\* C4: whenever update_database_schema fails, the persisted schema version
\* and schema of the store are what they were before the call.
C4_FailedMigrationRolledBack ==
    (lastOp = "migrate" /\ lastOut # "ok") => file = lastPre.file

\* Whether the migration got past the patch groups, to the final check.
ProcessedAllGroups == lastRes[2] \in {"", "no usable schema version"}

\* C17: when update_database_schema has processed all patch groups it
\* succeeds exactly when the final version is at least inclusive_min and below
\* exclusive_max, and then what the connection holds is committed; otherwise
\* it fails with the error of the final check and commits nothing: with no
\* script run, the database file and the pending writes are as before.
C17_FinalVersionCheck ==
    (lastOp = "migrate" /\ ProcessedAllGroups) =>
        /\ (lastOut = "ok") <=> Compatible(get_current_schema_version(work))
        /\ lastOut = "ok" => (file = work /\ ~in_transaction)
        /\ lastOut # "ok" =>
                /\ lastOut = "ValueError"
                /\ lastRes[2] = "no usable schema version"
                /\ lastRes[1] = 0 =>
                        /\ file = lastPre.file
                        /\ work = lastPre.work
                        /\ in_transaction = lastPre.in_transaction

\* C17 witness: the final check failed at exactly exclusive_max after a patch.
C17_FailedAtExclusiveMax ==
    /\ lastOp = "migrate"
    /\ lastOut = "ValueError"
    /\ lastRes[2] = "no usable schema version"
    /\ get_current_schema_version(work) = exclusive_max
    /\ lastRes[1] = 1

\* The final check failed with a write pending and no script run.
C17_FailedWithPendingWrite ==
    /\ lastOp = "migrate"
    /\ lastOut = "ValueError"
    /\ lastRes[2] = "no usable schema version"
    /\ lastRes[1] = 0
    /\ work # file

\* The version the store has before the i-th folder of the log is visited.
RECURSIVE VersionBefore(_, _, _, _)
VersionBefore(dir, log, i, v0) ==
    IF i = 1 THEN v0
    ELSE IF log[i - 1][2] = "applied"
         THEN (CHOOSE e \in dir : e.folder = log[i - 1][1] /\ e.file = log[i - 1][3]).sets
         ELSE VersionBefore(dir, log, i - 1, v0)

ScriptsIn(dir, folder) == {e \in dir : e.folder = folder /\ Len(e.file) > 0}
MigLog == lastRes[3]
VersionAtEvent(i) == VersionBefore(patches, MigLog, i, get_current_schema_version(lastPre.work))
AtOwnVersion(i) ==
    fullmatch_semver(MigLog[i][1]) /\ VersionAtEvent(i) = VersionOf(MigLog[i][1])

\* C21: for a group whose source version is the store's version and that
\* holds scripts, one script is executed, the one whose target is numerically
\* the highest in the group; no group has more than one script executed.
C21_HighestTargetApplied ==
    lastOp = "migrate" =>
        /\ \A i \in 1..Len(MigLog) :
                (/\ AtOwnVersion(i)
                 /\ ScriptsIn(patches, MigLog[i][1]) # {}
                 /\ \A e \in ScriptsIn(patches, MigLog[i][1]) : fullmatch_file(e.file)) =>
                    /\ MigLog[i][2] = "applied"
                    /\ \E e \in ScriptsIn(patches, MigLog[i][1]) : e.file = MigLog[i][3]
                    /\ \A e \in ScriptsIn(patches, MigLog[i][1]) :
                            VersionOf(e.file) <= VersionOf(MigLog[i][3])
                    /\ get_current_schema_version(
                            IF i = Len(MigLog) THEN work ELSE [user_version |-> VersionAtEvent(i + 1)]) =
                       (CHOOSE e \in patches : e.folder = MigLog[i][1] /\ e.file = MigLog[i][3]).sets
        /\ \A i, j \in 1..Len(MigLog) : (i # j) => MigLog[i][1] # MigLog[j][1]
        /\ lastRes[1] <= Cardinality({i \in 1..Len(MigLog) : MigLog[i][2] = "applied"})

\* C21 witness: of 0.0.4/0.0.5.sql and 0.0.4/0.0.10.sql the second was
\* executed.
C21_AppliedTenNotFive ==
    /\ lastOp = "migrate"
    /\ Cardinality(ScriptsIn(patches, V004)) = 2
    /\ \E e \in patches : e.file = V005 \o DotSql
    /\ Len(MigLog) = 1
    /\ MigLog[1] = <<V004, "applied", V0010 \o DotSql>>
    /\ get_current_schema_version(work) = 10

\* C22: after a script ran, the migration goes on only if the store's
\* version is the target the script's name declares; otherwise it fails with
\* the patch-integrity error at that group, and no later group is visited.
C22_PatchIntegrity ==
    lastOp = "migrate" =>
        /\ \A i \in 1..Len(MigLog) : MigLog[i][2] = "applied" =>
                LET e == CHOOSE x \in patches : x.folder = MigLog[i][1] /\ x.file = MigLog[i][3]
                IN  IF e.sets # VersionOf(e.file)
                    THEN /\ i = Len(MigLog)
                         /\ lastOut = "ValueError"
                         /\ lastRes[2] = "patch did not set schema version"
                    ELSE ~(i = Len(MigLog) /\ lastRes[2] = "patch did not set schema version")
        /\ lastRes[2] = "patch did not set schema version" =>
                (Len(MigLog) > 0 /\ MigLog[Len(MigLog)][2] = "applied")

\* C22 witness: the integrity error, with a group left unvisited.
C22_FailedBeforeLaterGroup ==
    /\ lastOp = "migrate"
    /\ lastRes[2] = "patch did not set schema version"
    /\ get_current_schema_version(work) = WrongVersion
    /\ Cardinality({e.folder : e \in patches}) > Len(MigLog)

SomeNameInvalid(dir) ==
    \E e \in dir : ~fullmatch_semver(e.folder) \/ (Len(e.file) > 0 /\ ~fullmatch_file(e.file))
C24_NamesValidatedFirst ==
    (lastOp = "migrate" /\ SomeNameInvalid(patches)) =>
        /\ lastOut = "ValueError"
        /\ lastRes[2] \in {"invalid patch folder name", "invalid patch file name"}
        /\ \A i \in 1..Len(MigLog) : MigLog[i][2] # "applied"
        /\ work = lastPre.work
        /\ file = lastPre.file

\* The name that is visited is validated before its folder or script is used.
C24_VisitedNameValidated ==
    lastOp = "migrate" =>
        \A i \in 1..Len(MigLog) :
            /\ ~fullmatch_semver(MigLog[i][1]) =>
                    (MigLog[i][2] = "invalid" /\ i = Len(MigLog) /\ lastOut = "ValueError")
            /\ MigLog[i][2] = "applied" => fullmatch_file(MigLog[i][3])

(***************************************************************************)
(* The deck as a state machine: cards are added to the four lists and the  *)
(* deck is completed against a populated card database.                    *)
(***************************************************************************)
CardIds == {"card-1", "card-2"}

Swamp == <<"S", "w", "a", "m", "p">>
DeckNames == {None, Island, Swamp}
DeckSets == {None, <<"m", "1">>, <<"M", "1">>, <<"q", "7">>}
DeckNumbers == {None, <<"2", "6">>}

\* The cards a parser may have built.
CardShapes == {Card(n, s, c) : n \in DeckNames, s \in DeckSets, c \in DeckNumbers}
OtherShapes == {Card(Island, None, None), Card(Swamp, None, None)}

\* The store the deck is completed against.
DeckStore ==
    LET island_m1 == CHOOSE r \in SampleCards : r.id = "print-1"
        island_x2 == CHOOSE r \in SampleCards : r.id = "print-2"
        bolt_m1 == CHOOSE r \in SampleCards : r.id = "print-3"
    IN  populate_database(EmptyStore(SchemaScriptVersion), EmptyStore(SchemaScriptVersion),
                          [ok |-> TRUE, data |-> <<island_m1, island_x2, bolt_m1>>]).work

\* The number of references the four lists hold together.
MaxDeckSize == 2
DeckSize == Len(main_deck) + Len(side_board) + Len(maybe_board) + Len(acquire_bord)

DeckInit ==
    /\ cards \in {[id \in CardIds |-> IF id = "card-1" THEN a ELSE b] :
                    a \in CardShapes, b \in OtherShapes}
    /\ main_deck = << >>
    /\ side_board = << >>
    /\ maybe_board = << >>
    /\ acquire_bord = << >>
    /\ commanders = << >>
    /\ file = DeckStore
    /\ work = file
    /\ in_transaction = FALSE
    /\ foreign_keys = FALSE
    /\ conn = "open"
    /\ handle = "ready"
    /\ closed_count = 0
    /\ exited = FALSE
    /\ LastIdle
    /\ CodecIdle
    /\ patches = {}

Added(op, card, is_commander) ==
    /\ lastOp' = op
    /\ lastArgs' = <<card, is_commander>>
    /\ lastOut' = "ok"
    /\ lastRes' = << >>
    /\ lastPre' = cards
    /\ UNCHANGED <<cards, dbVars, codecVars, patches>>

AddToMainDeck ==
    /\ DeckSize < MaxDeckSize
    /\ \E card \in CardIds, is_commander \in BOOLEAN :
        \E r \in {add_to_deck(main_deck, commanders, card, is_commander)} :
            /\ main_deck' = r.deck
            /\ commanders' = r.commanders
            /\ UNCHANGED <<side_board, maybe_board, acquire_bord>>
            /\ Added("add_to_main_deck", card, is_commander)

AddToSideBoard ==
    /\ DeckSize < MaxDeckSize
    /\ \E card \in CardIds, is_commander \in BOOLEAN :
        \E r \in {add_to_deck(side_board, commanders, card, is_commander)} :
            /\ side_board' = r.deck
            /\ commanders' = r.commanders
            /\ UNCHANGED <<main_deck, maybe_board, acquire_bord>>
            /\ Added("add_to_side_board", card, is_commander)

AddToMaybeBoard ==
    /\ DeckSize < MaxDeckSize
    /\ \E card \in CardIds, is_commander \in BOOLEAN :
        \E r \in {add_to_deck(maybe_board, commanders, card, is_commander)} :
            /\ maybe_board' = r.deck
            /\ commanders' = r.commanders
            /\ UNCHANGED <<main_deck, side_board, acquire_bord>>
            /\ Added("add_to_maybe_board", card, is_commander)

AddToAcquireBoard ==
    /\ DeckSize < MaxDeckSize
    /\ \E card \in CardIds, is_commander \in BOOLEAN :
        \E r \in {add_to_deck(acquire_bord, commanders, card, is_commander)} :
            /\ acquire_bord' = r.deck
            /\ commanders' = r.commanders
            /\ UNCHANGED <<main_deck, side_board, maybe_board>>
            /\ Added("add_to_acquire_board", card, is_commander)

\* deck.fill_missing_information(card_db)
FillMissingInformation ==
    /\ handle = "ready"
    /\ conn = "open"
    /\ \E r \in fill_missing_information(cards, main_deck, side_board, maybe_board, acquire_bord, work) :
        /\ cards' = r.cards
        /\ lastOp' = "fill_missing_information"
        /\ lastArgs' = << >>
        /\ lastOut' = r.out
        /\ lastRes' = r.log
        /\ lastPre' = cards
    /\ UNCHANGED <<main_deck, side_board, maybe_board, acquire_bord, commanders,
                   dbVars, codecVars, patches>>

DeckNext ==
    \/ AddToMainDeck
    \/ AddToSideBoard
    \/ AddToMaybeBoard
    \/ AddToAcquireBoard
    \/ FillMissingInformation

SpecDeck == DeckInit /\ [][DeckNext]_vars

(***************************************************************************)
(* Properties of deck completion.                                          *)
(***************************************************************************)
InAZone(id) ==
    \E i \in 1..Len(all_cards(main_deck, side_board, maybe_board, acquire_bord)) :
        all_cards(main_deck, side_board, maybe_board, acquire_bord)[i] = id

\* The rows of the decision table, for a card that had fields b before and
\* has fields a after a completion against the store w.
RowNameOnly(b, a, w) ==
    (Truthy(b.english_name) /\ ~Truthy(b.set_abbreviation) /\ ~Truthy(b.collector_number)) =>
        /\ a.english_name = b.english_name
        /\ <<a.set_abbreviation, a.collector_number>> \in
                get_card_set_and_number_for_name(w, b.english_name)
RowNameAndSet(b, a, w) ==
    (/\ Truthy(b.english_name) /\ Truthy(b.set_abbreviation) /\ ~Truthy(b.collector_number)
     /\ is_set_abbreviation_known(w, b.set_abbreviation)) =>
        /\ a.english_name = b.english_name
        /\ a.set_abbreviation = b.set_abbreviation
        /\ a.collector_number \in
                get_collector_number_for_card_in_set(w, b.english_name, b.set_abbreviation)
RowNameAndNumber(b, a, w) ==
    (Truthy(b.english_name) /\ ~Truthy(b.set_abbreviation) /\ Truthy(b.collector_number)) =>
        /\ a.english_name = b.english_name
        /\ a.collector_number = b.collector_number
        /\ a.set_abbreviation \in
                get_card_set_for_card_with_collector_number(w, b.english_name, b.collector_number)
RowSetAndNumber(b, a, w) ==
    (~Truthy(b.english_name) /\ Truthy(b.set_abbreviation) /\ Truthy(b.collector_number)) =>
        /\ a.set_abbreviation = b.set_abbreviation
        /\ a.collector_number = b.collector_number
        /\ a.english_name \in
                get_english_name_for_card_in_card_set(w, b.set_abbreviation, b.collector_number)
ResolvingRows(b, a, w) ==
    /\ RowNameOnly(b, a, w)
    /\ RowNameAndSet(b, a, w)
    /\ RowNameAndNumber(b, a, w)
    /\ RowSetAndNumber(b, a, w)

\* C10: after fill_missing_information has completed, every card in a zone
\* has been resolved as the row of the decision table for the fields it had
\* before the call says: (a) set and number from the name-only lookup,
\* (b) only the number from the (name, set) lookup, (c) only the set from the
\* (name, number) lookup, (d) only the name from the (set, number) lookup.
C10_ResolvingRows ==
    (lastOp = "fill_missing_information" /\ lastOut = "ok") =>
        \A id \in CardIds : InAZone(id) => ResolvingRows(lastPre[id], cards[id], work)

\* Each single visit of _fill_information_for_card follows the rows.
C10_RowsPerVisit ==
    lastOp = "fill_missing_information" =>
        \A i \in 1..Len(lastRes) :
            lastRes[i].out = "ok" => ResolvingRows(lastRes[i].before, lastRes[i].after, work)

\* Whether the store holds a set with this abbreviation, as stored, and
\* ignoring case.
SetStored(w, s) == \E i \in 1..Len(w.Card_Set) : w.Card_Set[i].Abbreviation = s
SetStoredNoCase(w, s) == \E i \in 1..Len(w.Card_Set) : lower(w.Card_Set[i].Abbreviation) = lower(s)

Untrusted(b, w) ==
    Truthy(b.english_name) /\ Truthy(b.set_abbreviation) /\ ~SetStored(w, b.set_abbreviation)

\* C11: a card with a known name and a set abbreviation the store does not
\* know is, whatever its collector number, resolved through the name-only
\* lookup: each visit of such a card calls the name-only lookup (never the
\* (name, set) lookup) and takes set and number from it, and after a
\* completed call such a card in a zone has a set and number the name-only
\* lookup gives.
C11_UnknownSetNotTrusted ==
    lastOp = "fill_missing_information" =>
        /\ \A i \in 1..Len(lastRes) :
                Untrusted(lastRes[i].before, work) =>
                    /\ lastRes[i].lookup = "by_name"
                    /\ lastRes[i].out = "ok" =>
                            /\ lastRes[i].after.english_name = lastRes[i].before.english_name
                            /\ <<lastRes[i].after.set_abbreviation, lastRes[i].after.collector_number>> \in
                                    get_card_set_and_number_for_name(work, lastRes[i].before.english_name)
        /\ lastOut = "ok" =>
                \A id \in CardIds : (InAZone(id) /\ Untrusted(lastPre[id], work)) =>
                    <<cards[id].set_abbreviation, cards[id].collector_number>> \in
                        get_card_set_and_number_for_name(work, lastPre[id].english_name)

\* C11 witness: a card with a known name, the unknown set "q7" and a known
\* number was resolved by name.
C11_BogusSetWithNumberResolved ==
    /\ lastOp = "fill_missing_information"
    /\ lastOut = "ok"
    /\ \E i \in 1..Len(lastRes) :
        /\ lastRes[i].before.set_abbreviation = <<"q", "7">>
        /\ Truthy(lastRes[i].before.english_name)
        /\ Truthy(lastRes[i].before.collector_number)
        /\ lastRes[i].after.set_abbreviation # <<"q", "7">>

\* C12: a card whose name, set and number are all known, the set being one
\* the store holds (abbreviations compared ignoring case), is complete: no
\* visit of such a card calls a lookup or changes a field.
C12_CompleteCardUntouched ==
    lastOp = "fill_missing_information" =>
        \A i \in 1..Len(lastRes) :
            (/\ Truthy(lastRes[i].before.english_name)
             /\ Truthy(lastRes[i].before.set_abbreviation)
             /\ Truthy(lastRes[i].before.collector_number)
             /\ SetStoredNoCase(work, lastRes[i].before.set_abbreviation)) =>
                /\ lastRes[i].lookup = "none"
                /\ lastRes[i].after = lastRes[i].before

\* The same for a set the store holds in exactly the given case.
C12_CompleteCardSameCase ==
    lastOp = "fill_missing_information" =>
        \A i \in 1..Len(lastRes) :
            (/\ Truthy(lastRes[i].before.english_name)
             /\ Truthy(lastRes[i].before.set_abbreviation)
             /\ Truthy(lastRes[i].before.collector_number)
             /\ SetStored(work, lastRes[i].before.set_abbreviation)) =>
                /\ lastRes[i].lookup = "none"
                /\ lastRes[i].after = lastRes[i].before

\* C13: a lookup that fails ends fill_missing_information with the error (the
\* failing visit is the last one and the call raises), and the card it failed
\* on has the fields it had before the call.
C13_FailurePropagates ==
    lastOp = "fill_missing_information" =>
        /\ \A i \in 1..Len(lastRes) :
                lastRes[i].out # "ok" =>
                    /\ i = Len(lastRes)
                    /\ lastOut = "ValueError"
                    /\ lastRes[i].after = lastRes[i].before
                    /\ cards[lastRes[i].card] = lastPre[lastRes[i].card]
        /\ lastOut = "ValueError" => (Len(lastRes) > 0 /\ lastRes[Len(lastRes)].out = "ValueError")

\* C13 witness: a completion that filled one card and then failed on another.
C13_FailedOnSecondCard ==
    /\ lastOp = "fill_missing_information"
    /\ lastOut = "ValueError"
    /\ Len(lastRes) = 2
    /\ lastRes[1].after # lastRes[1].before
    /\ cards[lastRes[1].card] = lastRes[1].after

\* The zone containers that hold a reference to the card.
ZonesHolding(id) ==
    {z \in {"main", "side", "maybe", "acquire"} :
        LET list == CASE z = "main" -> main_deck [] z = "side" -> side_board
                      [] z = "maybe" -> maybe_board [] OTHER -> acquire_bord
        IN  \E i \in 1..Len(list) : list[i] = id}

\* C14: every entry of commanders appears in exactly one of the four zone
\* containers.
C14_CommanderInOneZone ==
    \A i \in 1..Len(commanders) : Cardinality(ZonesHolding(commanders[i])) = 1

\* Every entry of commanders appears in at least one zone container.
C14_CommanderInSomeZone ==
    \A i \in 1..Len(commanders) : Cardinality(ZonesHolding(commanders[i])) >= 1

\* The name-only lookups of a log give the same printing for the same name.
SameAnswers(log) ==
    \A i, j \in 1..Len(log) :
        (/\ log[i].lookup = "by_name" /\ log[i].out = "ok"
         /\ log[j].lookup = "by_name" /\ log[j].out = "ok"
         /\ log[i].before.english_name = log[j].before.english_name) =>
            /\ log[i].after.set_abbreviation = log[j].after.set_abbreviation
            /\ log[i].after.collector_number = log[j].after.collector_number

SecondRuns ==
    fill_missing_information(cards, main_deck, side_board, maybe_board, acquire_bord, work)

\* C28: after a fill_missing_information that completed, running it again
\* against the same store, the name-only lookup answering as before,
\* completes and changes no field of any card.
C28_CompletionIdempotent ==
    (lastOp = "fill_missing_information" /\ lastOut = "ok") =>
        \A r \in SecondRuns :
            SameAnswers(lastRes \o r.log) => (r.out = "ok" /\ r.cards = cards)

\* The same for decks in which no card had, before the first run, a set
\* abbreviation that differs from a stored one in letter case only.
C28_IdempotentInStoredCase ==
    (/\ lastOp = "fill_missing_information"
     /\ lastOut = "ok"
     /\ \A id \in CardIds : InAZone(id) =>
            (SetStoredNoCase(work, lastPre[id].set_abbreviation) =>
                SetStored(work, lastPre[id].set_abbreviation))) =>
        \A r \in SecondRuns :
            SameAnswers(lastRes \o r.log) => (r.out = "ok" /\ r.cards = cards)

\* The references in the order main, side, maybe, acquire.
ZoneOrder == main_deck \o side_board \o maybe_board \o acquire_bord

\* C29: a fill_missing_information that failed visited the cards in the
\* order main, side, maybe, acquire up to the k-th, whose lookup failed, and
\* no further; a card visited before the k-th has the fields its last visit
\* gave it, and every other card, those after the k-th too, has the fields
\* it had before the call.
C29_StateAfterFailure ==
    (lastOp = "fill_missing_information" /\ lastOut = "ValueError") =>
        LET k == Len(lastRes)
        IN  /\ 1 <= k /\ k <= Len(ZoneOrder)
            /\ \A i \in 1..k : lastRes[i].card = ZoneOrder[i]
            /\ \A i \in 1..k : (lastRes[i].out = "ok") <=> (i < k)
            /\ \A id \in CardIds :
                    LET visits == {i \in 1..(k - 1) : ZoneOrder[i] = id}
                    IN  IF visits = {}
                        THEN cards[id] = lastPre[id]
                        ELSE cards[id] =
                                lastRes[CHOOSE i \in visits : \A j \in visits : j <= i].after

\* C29 witness: the first card's lookup failed and the second card, which
\* the name-only lookup would resolve, was left as it was.
C29_StoppedBeforeResolvableCard ==
    /\ lastOp = "fill_missing_information"
    /\ lastOut = "ValueError"
    /\ Len(lastRes) = 1
    /\ Len(ZoneOrder) = 2
    /\ ZoneOrder[2] # ZoneOrder[1]
    /\ lastPre[ZoneOrder[2]] = Card(Island, None, None)
    /\ cards[ZoneOrder[2]] = Card(Island, None, None)

====
